---- MODULE Spec2Model ----
(***************************************************************************)
(* Posts dashboard frontend: the API client (services/api.js), the         *)
(* call-state hook useApiCall and the posts hook usePostsApi               *)
(* (hooks/useApi.js, kept as src/unnamed/part_000).                        *)
(*                                                                         *)
(* JavaScript values are modelled as follows.                              *)
(*   - a post id is a natural number; 0 stands for every falsy id          *)
(*     (null, undefined, 0, ""), which is all that `!id` looks at;         *)
(*   - a string field of postData is a string; "" stands for every falsy   *)
(*     value of the field (missing, undefined, null, "");                  *)
(*   - user_id is a natural number, 0 standing for every falsy value;      *)
(*   - the error state of a hook is a message, or Null;                    *)
(*   - objects are records; JsNull is the JavaScript null where an object  *)
(*     is expected (a response payload, a parsed body).                    *)
(***************************************************************************)
EXTENDS Integers, Sequences, FiniteSets, TLC

VARIABLES
    loading,     \* useApiCall: const [loading, setLoading] = useState(false)
    error,       \* useApiCall: const [error, setError] = useState(null)
    posts,       \* usePostsApi: const [posts, setPosts] = useState([])
    pagination,  \* usePostsApi: const [pagination, setPagination] = useState({})
    calls,       \* the execute calls of the hook instance that have not settled, oldest first
    last,        \* the step taken last on the hook instance and what it produced
    client,      \* a direct call of an API client method, as runApiTests makes them
    view,        \* PostsList: its own state, its pending effect, and the backend it talks to
    dash,        \* Dashboard and AddPost: their own state
    calc,        \* a call of a function of utils/validation.js: its arguments and its result
    overtaken    \* for each call in flight, whether a call issued after it has settled

vars == <<loading, error, posts, pagination, calls, last, client, view, dash, calc, overtaken>>

\* The state of one hook instance.
hookVars == <<loading, error, posts, pagination, calls, last>>

\* The state of the components and of the validation calls, and the order of settlement.
uiVars == <<view, dash, calc, overtaken>>

(***************************************************************************)
(* Bounds of the model.                                                    *)
(***************************************************************************)
MaxId == 3        \* post ids are 1..MaxId
MaxInFlight == 2  \* execute calls of one hook instance in flight together
MaxPage == 2      \* the backend's pages are 1..MaxPage
MaxRefresh == 2   \* posts created through the add form

(***************************************************************************)
(* Program constants.                                                      *)
(***************************************************************************)
OK == 200
CREATED == 201
BAD_REQUEST == 400
NOT_FOUND == 404
INTERNAL_SERVER_ERROR == 500
NETWORK_ERROR == 0
DEFAULT_PAGE == 1
DEFAULT_LIMIT == 6
MAX_LIMIT == 100
RETRY_ATTEMPTS == 3
POST_TITLE_MAX_LENGTH == 255
POST_BODY_MAX_LENGTH == 10000
MIN_USER_ID == 1
SearchTermLimit == 100  \* the literal of `.slice(0, 100)` in validateSearchTerm

Null == "null"
JsNull == [null |-> TRUE]

PostIds == 1..MaxId
Ids == 0..MaxId

(***************************************************************************)
(* services/api.js: ApiError, apiRequest, apiService.posts, handleApiError *)
(***************************************************************************)

\* class ApiError extends Error { constructor(message, status, response) }
ApiError(message, status, response) ==
    [name |-> "ApiError", message |-> message, status |-> status, response |-> response]

\* An error that is not an ApiError (it carries no status and no response).
PlainError(message) == [name |-> "Error", message |-> message]

\* A settled promise.
Resolved(value) == [settled |-> "resolved", value |-> value]
Rejected(err) == [settled |-> "rejected", error |-> err]

IsResolved(p) == p.settled = "resolved"
IsRejected(p) == p.settled = "rejected"

\* A promise that resolved with an envelope whose success flag is set
\* (`response && response.success`).
SuccessEnvelope(p) == IsResolved(p) /\ p.value # JsNull /\ p.value.success

\* a || b on strings: "" and null are falsy.
OrString(a, b) == IF a = "" \/ a = Null THEN b ELSE a

\* What the network does with an issued request: fetch rejects, or a response arrives.
NetReject(message) == [kind |-> "reject", message |-> message]
NetResponse(status, body) == [kind |-> "response", status |-> status, body |-> body]

\* A response body that is not JSON: response.json() rejects.
Unparseable == [raw |-> "<html>"]
ParseErrorMessage == "Unexpected token < in JSON at position 0"
\* data.error on a body that parsed to null throws this TypeError.
NullBodyMessage == "Cannot read properties of null (reading 'error')"

\* response.ok
ResponseOk(status) == status >= 200 /\ status <= 299

\* response.statusText
StatusText(status) ==
    CASE status = OK -> "OK"
      [] status = CREATED -> "Created"
      [] status = BAD_REQUEST -> "Bad Request"
      [] status = NOT_FOUND -> "Not Found"
      [] status = INTERNAL_SERVER_ERROR -> "Internal Server Error"
      [] OTHER -> ""

\* `HTTP ${response.status}: ${response.statusText}`
HttpMessage(status) == "HTTP " \o ToString(status) \o ": " \o StatusText(status)

\* A bug apiRequest does not have: the body's error field is not looked at.
ApiRequest_GenericMessage(net) ==
    IF net.kind = "reject"
    THEN Rejected(ApiError(OrString(net.message, "Network error occurred"), NETWORK_ERROR, JsNull))
    ELSE IF net.body = Unparseable
    THEN Rejected(ApiError(OrString(ParseErrorMessage, "Network error occurred"), NETWORK_ERROR, JsNull))
    ELSE IF ~ResponseOk(net.status)
    THEN Rejected(ApiError(HttpMessage(net.status), net.status, net.body))
    ELSE Resolved(net.body)

\* apiRequest from the point where fetch(url, config) has been issued: what the
\* returned promise settles with, given what the network did.
ApiRequest(net) ==
    IF net.kind = "reject"
    THEN \* catch: not an ApiError
         Rejected(ApiError(OrString(net.message, "Network error occurred"), NETWORK_ERROR, JsNull))
    ELSE IF net.body = Unparseable
    THEN \* await response.json() rejects; catch: not an ApiError
         Rejected(ApiError(OrString(ParseErrorMessage, "Network error occurred"), NETWORK_ERROR, JsNull))
    ELSE IF ~ResponseOk(net.status)
    THEN IF net.body = JsNull
         THEN \* data.error throws a TypeError inside the try; catch: not an ApiError
              Rejected(ApiError(OrString(NullBodyMessage, "Network error occurred"), NETWORK_ERROR, JsNull))
         ELSE Rejected(ApiError(OrString(net.body.error, HttpMessage(net.status)), net.status, net.body))
    ELSE Resolved(net.body)

\* The pre-flight checks of the API client's methods: the ApiError thrown before
\* apiRequest is called, or Pass.
Pass == [name |-> "pass"]

\* A bug update does not have: title and body are not checked.
Preflight_NoFieldCheck(method, id, postData) ==
    CASE method \in {"getById", "delete", "update"} ->
             IF id = 0 THEN ApiError("Post ID is required", BAD_REQUEST, JsNull) ELSE Pass
      [] method = "create" ->
             IF postData.title = "" \/ postData.body = "" \/ postData.user_id = 0
             THEN ApiError("Title, body, and user_id are required", BAD_REQUEST, JsNull)
             ELSE Pass
      [] OTHER -> Pass

Preflight(method, id, postData) ==
    CASE method \in {"getById", "delete"} ->
             IF id = 0 THEN ApiError("Post ID is required", BAD_REQUEST, JsNull) ELSE Pass
      [] method = "create" ->
             IF postData.title = "" \/ postData.body = "" \/ postData.user_id = 0
             THEN ApiError("Title, body, and user_id are required", BAD_REQUEST, JsNull)
             ELSE Pass
      [] method = "update" ->
             IF id = 0 THEN ApiError("Post ID is required", BAD_REQUEST, JsNull)
             ELSE IF postData.title = "" \/ postData.body = ""
             THEN ApiError("Title and body are required", BAD_REQUEST, JsNull)
             ELSE Pass
      [] OTHER -> Pass  \* checkHealth, getAll

\* A bug handleApiError does not have: an error without a response payload is
\* taken for a network error.
HandleApiError_NoResponse(err) ==
    IF err.name = "ApiError"
    THEN [message |-> err.message, status |-> err.status,
          isNetworkError |-> (err.response = JsNull)]
    ELSE [message |-> OrString(err.message, "An unexpected error occurred"),
          status |-> INTERNAL_SERVER_ERROR, isNetworkError |-> FALSE]

\* handleApiError
HandleApiError(err) ==
    IF err.name = "ApiError"
    THEN [message |-> err.message, status |-> err.status,
          isNetworkError |-> (err.status = NETWORK_ERROR)]
    ELSE [message |-> OrString(err.message, "An unexpected error occurred"),
          status |-> INTERNAL_SERVER_ERROR, isNetworkError |-> FALSE]

(***************************************************************************)
(* The backend and the network, as the client sees them.                   *)
(***************************************************************************)
Post(id) == [id |-> id]

Pagination(currentPage, totalPages, totalItems) ==
    [currentPage |-> currentPage, totalPages |-> totalPages, totalItems |-> totalItems,
     hasNextPage |-> (currentPage < totalPages), hasPrevPage |-> (currentPage > 1)]

\* useState({}) and `response.data.pagination || {}`
EmptyPagination == [empty |-> TRUE]

Envelope(success, data, err) == [success |-> success, data |-> data, error |-> err]

\* Lists of posts the backend returns: the posts 1..n oldest first, newest first,
\* or in an order that is neither. Ids are assigned by the backend and are distinct.
Ascending(n) == [i \in 1..n |-> Post(i)]
Descending(n) == [i \in 1..n |-> Post(n + 1 - i)]
Rotated(n) == [i \in 1..n |-> Post((i % n) + 1)]

\* Pagination metadata the backend returns with a list.
ServerPaginations ==
    {Pagination(p, MaxPage, (MaxPage - 1) * DEFAULT_LIMIT + 1) : p \in 1..MaxPage}

\* The data of a successful envelope, by the API client method that asked; lists
\* are the lists of posts a getAll may be answered with.
SuccessData(method, lists) ==
    CASE method = "getAll" ->
             {[posts |-> l, pagination |-> p] : l \in lists, p \in ServerPaginations}
                 \cup {[message |-> "no list"]}
      [] method \in {"getById", "create", "update"} -> {Post(i) : i \in PostIds}
      [] method = "delete" -> {[message |-> "Post deleted successfully"]}
      [] OTHER -> {[uptime |-> 1]}  \* checkHealth

\* What the network can do with a request of `method`. A profile w bounds it:
\* w.rejects are the messages fetch can reject with, w.statuses the HTTP statuses,
\* w.raw the bodies that are no envelope, w.errors the error fields of a failure
\* envelope, w.lists the lists of a getAll.
Nets(method, w) ==
    {NetReject(m) : m \in w.rejects}
        \cup {NetResponse(s, b) : s \in w.statuses,
                                   b \in w.raw
                                        \cup {Envelope(FALSE, JsNull, e) : e \in w.errors}
                                        \cup {Envelope(TRUE, d, Null) : d \in SuccessData(method, w.lists)}}

\* The profile of the direct calls of the client.
ApiWorld ==
    [rejects |-> {"Failed to fetch", ""},
     statuses |-> {OK, CREATED, NOT_FOUND, INTERNAL_SERVER_ERROR},
     raw |-> {Unparseable, JsNull},
     errors |-> {Null, "", "not found"},
     lists |-> {<<>>} \cup UNION {{Ascending(n), Descending(n), Rotated(n)} : n \in 1..MaxId}]

\* The profile of the call-state behaviours: every kind of failure, two lists.
CallWorld ==
    [rejects |-> {"Failed to fetch"},
     statuses |-> {OK, NOT_FOUND},
     raw |-> {Unparseable, JsNull},
     errors |-> {Null, "not found"},
     lists |-> {<<>>, Ascending(1)}]

\* The profile of the list behaviours: lists of every length up to MaxId, one
\* failure of each kind the posts hook tells apart.
PostsWorld ==
    [rejects |-> {"Failed to fetch"},
     statuses |-> {OK, NOT_FOUND},
     raw |-> {JsNull},
     errors |-> {"not found"},
     lists |-> {<<>>, Ascending(1), Rotated(MaxId)}]

NoNet == [kind |-> "none"]

(***************************************************************************)
(* Direct calls of the API client (utils/apiTest.js, kept at the end of    *)
(* utils/constants.js: runApiTests awaits one method call after another).  *)
(***************************************************************************)
NoData == [title |-> "", body |-> "", user_id |-> 0]
PostDatas == [title : {"", "T"}, body : {"", "B"}, user_id : {0, 1}]

\* method, id, postData of the calls made; a method that takes no id gets 0,
\* one that takes no postData gets NoData.
ApiArgs ==
    {<<m, 0, NoData>> : m \in {"checkHealth", "getAll"}}
        \cup {<<m, i, NoData>> : m \in {"getById", "delete"}, i \in Ids}
        \cup {<<"create", 0, d>> : d \in PostDatas}
        \cup {<<"update", i, d>> : i \in Ids, d \in PostDatas}

\* `catch (error) { const errorInfo = handleApiError(error); ... }`
NoInfo == [caught |-> FALSE]
Caught(result) == IF IsRejected(result) THEN HandleApiError(result.error) ELSE NoInfo

\* A method is called: its pre-flight check runs and, when it passes, apiRequest
\* issues fetch (both in the same synchronous run).
ApiCall(method, id, postData) ==
    /\ client.pc # "pending"
    /\ LET pre == Preflight(method, id, postData)
       IN  client' =
             IF pre # Pass
             THEN [pc |-> "done", method |-> method, id |-> id, postData |-> postData,
                   requests |-> 0, net |-> NoNet, result |-> Rejected(pre),
                   info |-> HandleApiError(pre)]
             ELSE [pc |-> "pending", method |-> method, id |-> id, postData |-> postData,
                   requests |-> 1]
    /\ UNCHANGED <<loading, error, posts, pagination, calls, last>>

\* A bug apiRequest does not have: a rejected fetch is issued again, up to
\* API_CONFIG.RETRY_ATTEMPTS times.
ApiSettle_Retry ==
    /\ client.pc = "pending"
    /\ \E net \in Nets(client.method, ApiWorld) : client' =
         IF net.kind = "reject" /\ client.requests < RETRY_ATTEMPTS
         THEN [client EXCEPT !.requests = @ + 1]
         ELSE [pc |-> "done", method |-> client.method, id |-> client.id,
               postData |-> client.postData, requests |-> client.requests,
               net |-> net, result |-> ApiRequest(net), info |-> Caught(ApiRequest(net))]
    /\ UNCHANGED <<loading, error, posts, pagination, calls, last>>

\* The network settles the request of the pending call: apiRequest runs to its end.
ApiSettle ==
    /\ client.pc = "pending"
    /\ \E net \in Nets(client.method, ApiWorld) : client' = [pc |-> "done", method |-> client.method, id |-> client.id,
                  postData |-> client.postData, requests |-> client.requests,
                  net |-> net, result |-> ApiRequest(net), info |-> Caught(ApiRequest(net))]
    /\ UNCHANGED <<loading, error, posts, pagination, calls, last>>

HookInit ==
    /\ loading = FALSE
    /\ error = Null
    /\ posts = <<>>
    /\ pagination = EmptyPagination
    /\ calls = <<>>
    /\ last = [kind |-> "init"]

\* No component is mounted and no validation function is being called.
NoView == [mounted |-> FALSE]
NoDash == [mounted |-> FALSE]
NoCalc == [fn |-> "none"]
NoOrder == [calls |-> <<>>, settled |-> FALSE]
NoUi == view = NoView /\ dash = NoDash /\ calc = NoCalc /\ overtaken = NoOrder

InitApi == HookInit /\ client = [pc |-> "idle"] /\ NoUi

NextApi ==
    \/ \E a \in ApiArgs : ApiCall(a[1], a[2], a[3]) /\ UNCHANGED uiVars
    \/ ApiSettle /\ UNCHANGED uiVars

SpecApi == InitApi /\ [][NextApi]_vars

(***************************************************************************)
(* hooks/useApi.js: useApiCall                                             *)
(***************************************************************************)

\* A bug execute does not have: no setError(null) when a call starts.
ExecuteStarted_KeepsError == [loading |-> TRUE, error |-> error]

\* execute, up to `await apiCall()`: setLoading(true); setError(null).
ExecuteStarted == [loading |-> TRUE, error |-> Null]

\* A bug execute does not have: no finally block, loading is never set back.
ExecuteSettled_NoReset(res, st) ==
    [loading |-> st.loading,
     error |-> IF IsRejected(res) THEN HandleApiError(res.error).message ELSE st.error]

\* A bug execute does not have: setLoading(false) on the success path only.
ExecuteSettled_NoFinally(res, st) ==
    [loading |-> IF IsRejected(res) THEN st.loading ELSE FALSE,
     error |-> IF IsRejected(res) THEN HandleApiError(res.error).message ELSE st.error]

\* execute, once apiCall() has settled with res: the catch block
\* (setError(handleApiError(err).message)) and the finally block
\* (setLoading(false)); st is the call state they find.
ExecuteSettled(res, st) ==
    [loading |-> FALSE,
     error |-> IF IsRejected(res) THEN HandleApiError(res.error).message ELSE st.error]

\* A bug execute does not have: the catch block does not re-throw.
ExecuteOutcome_Swallowed(res) ==
    IF IsRejected(res) THEN Resolved(JsNull) ELSE Resolved(res.value)

\* What the promise execute returned settles with: `return result` or `throw err`.
ExecuteOutcome(res) ==
    IF IsRejected(res) THEN Rejected(res.error) ELSE Resolved(res.value)

\* A bug clearError does not have: it ends the loading state as well.
ClearError_ResetsLoading ==
    /\ error' = Null
    /\ loading' = FALSE
    /\ last' = [kind |-> "clearError"]
    /\ UNCHANGED <<posts, pagination, calls, client>>

\* clearError
ClearError ==
    /\ error' = Null
    /\ last' = [kind |-> "clearError"]
    /\ UNCHANGED <<loading, posts, pagination, calls, client>>

(***************************************************************************)
(* hooks/useApi.js: usePostsApi                                            *)
(*                                                                         *)
(* A hook function runs in two steps. The first is synchronous up to the   *)
(* await inside execute: the module import (already loaded: useApi.js      *)
(* imports services/api statically), setLoading(true), setError(null) and  *)
(* the API client method up to the fetch it issues. The second runs when   *)
(* the network settles the request: the rest of apiRequest, of execute and *)
(* of the hook function follow each other in the microtask queue, with no  *)
(* other event between them. When the pre-flight check of the API client   *)
(* method fails, no request is issued, the promise is rejected at once and *)
(* the second step follows the first in the same way: the call is one step.*)
(***************************************************************************)

\* A bug filter does not have: the comparison the wrong way round.
FilterOut_Inverted(list, id) == SelectSeq(list, LAMBDA post : post.id = id)

\* `prev.filter(post => post.id !== id)`
FilterOut(list, id) == SelectSeq(list, LAMBDA post : post.id # id)

\* The list holds a post with this id.
HoldsPost(list, id) == \E k \in 1..Len(list) : list[k].id = id

\* `response.data.posts || []` and `response.data.pagination || {}`
PostsOf(data) == IF "posts" \in DOMAIN data THEN data.posts ELSE <<>>
PaginationOf(data) == IF "pagination" \in DOMAIN data THEN data.pagination ELSE EmptyPagination

\* A call that another call of the instance overlapped keeps saying so.
Overlapped(cs) == [i \in 1..Len(cs) |-> [cs[i] EXCEPT !.overlapped = TRUE]]

RemoveAt(cs, i) == [j \in 1..(Len(cs) - 1) |-> IF j < i THEN cs[j] ELSE cs[j + 1]]

\* What a step that settles a call leaves in `last`: the call, what the operation
\* passed to execute settled with (res), what execute settled with, what the hook
\* function settled with (ret), and whether the list held the call's id.
Settlement(c, res, ret) ==
    [kind |-> "settle", op |-> c.op, id |-> c.id,
     requests |-> c.requests, overlapped |-> c.overlapped,
     res |-> res, exec |-> ExecuteOutcome(res), ret |-> ret,
     had |-> (\E k \in 1..Len(posts) : posts[k].id = c.id)]

\* A hook function is called and the pre-flight check passes: the request is in flight.
Start(op, method, id) ==
    /\ Len(calls) < MaxInFlight
    /\ loading' = ExecuteStarted.loading
    /\ error' = ExecuteStarted.error
    /\ calls' = Append(Overlapped(calls),
                       [op |-> op, method |-> method, id |-> id, requests |-> 1,
                        overlapped |-> (calls # <<>>)])
    /\ last' = [kind |-> "start", op |-> op, id |-> id]
    /\ UNCHANGED <<posts, pagination, client>>

\* A hook function is called and the pre-flight check fails with pre: execute
\* runs from setLoading(true) to its finally block, and the hook function
\* rejects with the error execute re-throws (no hook function catches it).
Refused(op, id, pre) ==
    LET res == Rejected(pre)
        st == ExecuteSettled(res, ExecuteStarted)
    IN  /\ loading' = st.loading
        /\ error' = st.error
        /\ calls' = Overlapped(calls)
        /\ last' = Settlement([op |-> op, id |-> id, requests |-> 0,
                               overlapped |-> (calls # <<>>)],
                              res, ExecuteOutcome(res))
        /\ UNCHANGED <<posts, pagination, client>>

Call(op, method, id, postData) ==
    LET pre == Preflight(method, id, postData)
    IN  IF pre = Pass THEN Start(op, method, id) ELSE Refused(op, id, pre)

\* fetchPosts, createPost, updatePost, deletePost up to the await inside execute
FetchPosts == Call("fetchPosts", "getAll", 0, NoData)
CreatePost(postData) == Call("createPost", "create", 0, postData)
UpdatePost(id, postData) == Call("updatePost", "update", id, postData)
DeletePost(id) == Call("deletePost", "delete", id, NoData)

\* The second step of a hook function, for the call at position i whose
\* operation settled with res: execute's catch and finally, then the hook
\* function's own continuation, which sets posts and pagination to newPosts
\* and newPagination and settles with ret.
Settle(i, res, newPosts, newPagination, ret) ==
    LET st == ExecuteSettled(res, [loading |-> loading, error |-> error])
    IN  /\ loading' = st.loading
        /\ error' = st.error
        /\ posts' = newPosts
        /\ pagination' = newPagination
        /\ calls' = RemoveAt(calls, i)
        /\ last' = Settlement(calls[i], res, ret)
        /\ UNCHANGED client

\* A bug fetchPosts does not have: the response to a call is dropped when a
\* call issued after it is in flight.
FetchPostsSettled_DropsStale(i, net) ==
    /\ calls[i].op = "fetchPosts"
    /\ LET res == ApiRequest(net)
           ex == ExecuteOutcome(res)
       IN  IF IsRejected(ex) \/ i < Len(calls)
           THEN Settle(i, res, posts, pagination, ex)
           ELSE IF ex.value # JsNull /\ ex.value.success
           THEN Settle(i, res, PostsOf(ex.value.data), PaginationOf(ex.value.data), ex)
           ELSE Settle(i, res, posts, pagination, ex)

\* A bug fetchPosts does not have: the pagination of a response is stored, its
\* list is not.
FetchPostsSettled_KeepsList(i, net) ==
    /\ calls[i].op = "fetchPosts"
    /\ LET res == ApiRequest(net)
           ex == ExecuteOutcome(res)
       IN  IF IsRejected(ex)
           THEN Settle(i, res, posts, pagination, ex)
           ELSE IF ex.value # JsNull /\ ex.value.success
           THEN Settle(i, res, posts, PaginationOf(ex.value.data), ex)
           ELSE Settle(i, res, posts, pagination, ex)

\* A bug fetchPosts does not have: a failed fetch empties the list.
FetchPostsSettled_ResetsOnFailure(i, net) ==
    /\ calls[i].op = "fetchPosts"
    /\ LET res == ApiRequest(net)
           ex == ExecuteOutcome(res)
       IN  IF IsRejected(ex)
           THEN Settle(i, res, <<>>, EmptyPagination, ex)
           ELSE IF ex.value # JsNull /\ ex.value.success
           THEN Settle(i, res, PostsOf(ex.value.data), PaginationOf(ex.value.data), ex)
           ELSE Settle(i, res, posts, pagination, ex)

\* fetchPosts after `await execute(() => postsApi.getAll(params))`
FetchPostsSettled(i, net) ==
    /\ calls[i].op = "fetchPosts"
    /\ LET res == ApiRequest(net)
           ex == ExecuteOutcome(res)
       IN  IF IsRejected(ex)
           THEN Settle(i, res, posts, pagination, ex)
           ELSE IF ex.value # JsNull /\ ex.value.success
           THEN Settle(i, res, PostsOf(ex.value.data), PaginationOf(ex.value.data), ex)
           ELSE Settle(i, res, posts, pagination, ex)

\* A bug createPost and updatePost do not have: the post of a successful
\* response is merged into the list.
PassThroughSettled_Merges(i, net) ==
    /\ calls[i].op \in {"createPost", "updatePost"}
    /\ LET res == ApiRequest(net)
       IN  Settle(i, res,
                  IF IsResolved(res) /\ res.value # JsNull /\ res.value.success
                  THEN Append(posts, res.value.data) ELSE posts,
                  pagination, ExecuteOutcome(res))

\* createPost and updatePost after `await execute(...)`: `return response`
PassThroughSettled(i, net) ==
    /\ calls[i].op \in {"createPost", "updatePost"}
    /\ LET res == ApiRequest(net)
       IN  Settle(i, res, posts, pagination, ExecuteOutcome(res))

\* deletePost after `await execute(() => postsApi.delete(id))`
DeletePostSettled(i, net) ==
    /\ calls[i].op = "deletePost"
    /\ LET res == ApiRequest(net)
           ex == ExecuteOutcome(res)
       IN  IF IsRejected(ex)
           THEN Settle(i, res, posts, pagination, ex)
           ELSE IF ex.value = JsNull
           THEN \* response.success on null throws a TypeError
                Settle(i, res, posts, pagination,
                       Rejected(PlainError("Cannot read properties of null (reading 'success')")))
           ELSE IF ex.value.success
           THEN Settle(i, res, FilterOut(posts, calls[i].id), pagination, ex)
           ELSE Settle(i, res, posts, pagination, ex)

Init == HookInit /\ client = [pc |-> "idle"] /\ NoUi

(***************************************************************************)
(* Spec: the call state of one usePostsApi instance under any sequence of  *)
(* hook function calls, settlements and clearError calls.                  *)
(***************************************************************************)
\* The postData the hook functions are called with: complete, or lacking a field.
HookPostDatas == {[title |-> "T", body |-> "B", user_id |-> 1], NoData}

Next ==
    \/ FetchPosts /\ UNCHANGED uiVars
    \/ \E d \in HookPostDatas : CreatePost(d) /\ UNCHANGED uiVars
    \/ \E id \in {0, MaxId}, d \in HookPostDatas : UpdatePost(id, d) /\ UNCHANGED uiVars
    \/ \E id \in Ids : DeletePost(id) /\ UNCHANGED uiVars
    \/ \E i \in 1..Len(calls) : \E net \in Nets(calls[i].method, CallWorld) :
           FetchPostsSettled(i, net) /\ UNCHANGED uiVars
    \/ \E i \in 1..Len(calls) : \E net \in Nets(calls[i].method, CallWorld) :
           PassThroughSettled(i, net) /\ UNCHANGED uiVars
    \/ \E i \in 1..Len(calls) : \E net \in Nets(calls[i].method, CallWorld) :
           DeletePostSettled(i, net) /\ UNCHANGED uiVars
    \/ ClearError /\ UNCHANGED uiVars

Spec == Init /\ [][Next]_vars

(***************************************************************************)
(* SpecPosts: the list and the pagination of one usePostsApi instance      *)
(* under any sequence of fetchPosts and deletePost calls and settlements.  *)
(***************************************************************************)
NextPosts ==
    \/ FetchPosts /\ UNCHANGED uiVars
    \/ \E id \in Ids : DeletePost(id) /\ UNCHANGED uiVars
    \/ \E i \in 1..Len(calls) : \E net \in Nets(calls[i].method, PostsWorld) :
           FetchPostsSettled(i, net) /\ UNCHANGED uiVars
    \/ \E i \in 1..Len(calls) : \E net \in Nets(calls[i].method, PostsWorld) :
           DeletePostSettled(i, net) /\ UNCHANGED uiVars

SpecPosts == Init /\ [][NextPosts]_vars

(***************************************************************************)
(* utils/validation.js                                                     *)
(*                                                                         *)
(* A JavaScript value is a record tagged with its type in t. A string is   *)
(* written as its runs of equal characters, <<[ch |-> "x", n |-> 150]>>    *)
(* being 'x'.repeat(150); the functions work on its characters, Chars. A   *)
(* number is an integer or NaN.                                            *)
(***************************************************************************)
Str(runs) == [t |-> "string", runs |-> runs]
Num(n) == [t |-> "number", num |-> n]
JsNaN == [t |-> "NaN"]
JsUndefined == [t |-> "undefined"]
JsNullValue == [t |-> "null"]
JsObject == [t |-> "object"]

Run(ch, n) == [ch |-> ch, n |-> n]

RECURSIVE RunsLength(_)
RunsLength(runs) ==
    IF runs = <<>> THEN 0 ELSE runs[1].n + RunsLength(Tail(runs))

\* The characters of the string written as runs.
RECURSIVE Chars(_)
Chars(runs) ==
    IF runs = <<>> THEN <<>>
    ELSE [k \in 1..runs[1].n |-> runs[1].ch] \o Chars(Tail(runs))

Min(a, b) == IF a <= b THEN a ELSE b
Max(a, b) == IF a >= b THEN a ELSE b

\* String.prototype.trim, on characters
Trim(s) ==
    IF \A k \in 1..Len(s) : s[k] = " "
    THEN <<>>
    ELSE LET first == CHOOSE k \in 1..Len(s) : s[k] # " " /\ \A j \in 1..(k - 1) : s[j] = " "
             final == CHOOSE k \in 1..Len(s) : s[k] # " " /\ \A j \in (k + 1)..Len(s) : s[j] = " "
         IN  SubSeq(s, first, final)

\* String.prototype.slice(0, n), on characters
SliceTo(s, n) == SubSeq(s, 1, Min(n, Len(s)))

Digits == {"0", "1", "2", "3", "4", "5", "6", "7", "8", "9"}
DigitValue(c) == CHOOSE d \in 0..9 : ToString(d) = c

RECURSIVE DigitsValue(_)
DigitsValue(s) ==
    IF s = <<>> THEN 0
    ELSE 10 * DigitsValue(SubSeq(s, 1, Len(s) - 1)) + DigitValue(s[Len(s)])

\* !v
Falsy(v) ==
    \/ v.t \in {"undefined", "null", "NaN"}
    \/ v.t = "number" /\ v.num = 0
    \/ v.t = "string" /\ v.runs = <<>>

\* parseInt(v): leading blanks are skipped, a sign is taken, then the digits up
\* to the first character that is none; NaN when there is no digit. An integer
\* is parsed from its decimal notation, which gives the integer.
ParseInt(v) ==
    CASE v.t = "number" -> v
      [] v.t = "string" ->
             LET s == Chars(v.runs)
                 start == IF \A k \in 1..Len(s) : s[k] = " " THEN Len(s) + 1
                          ELSE CHOOSE k \in 1..Len(s) :
                                   s[k] # " " /\ \A j \in 1..(k - 1) : s[j] = " "
                 signed == start <= Len(s) /\ s[start] \in {"-", "+"}
                 from == IF signed THEN start + 1 ELSE start
                 upto == CHOOSE k \in (from - 1)..Len(s) :
                             /\ \A j \in from..k : s[j] \in Digits
                             /\ k = Len(s) \/ s[k + 1] \notin Digits
                 value == DigitsValue(SubSeq(s, from, upto))
             IN  IF upto < from THEN JsNaN
                 ELSE IF signed /\ s[start] = "-" THEN Num(0 - value) ELSE Num(value)
      [] OTHER -> JsNaN

\* Number(v), as the comparison v < n takes it: a string is a number when,
\* trimmed, it is empty (0) or a sign and digits; undefined and objects are NaN.
ToNumber(v) ==
    CASE v.t = "number" -> v
      [] v.t = "null" -> Num(0)
      [] v.t = "string" ->
             LET s == Trim(Chars(v.runs))
                 signed == s # <<>> /\ s[1] \in {"-", "+"}
                 digits == IF signed THEN Tail(s) ELSE s
             IN  IF s = <<>> THEN Num(0)
                 ELSE IF digits # <<>> /\ \A k \in 1..Len(digits) : digits[k] \in Digits
                 THEN IF signed /\ s[1] = "-" THEN Num(0 - DigitsValue(digits))
                      ELSE Num(DigitsValue(digits))
                 ELSE JsNaN
      [] OTHER -> JsNaN

\* v < n: false when v is no number
LessThan(v, n) == ToNumber(v).t = "number" /\ ToNumber(v).num < n

\* `!x || typeof x !== 'string' || !x.trim()`
Blank(v) == Falsy(v) \/ v.t # "string" \/ Trim(Chars(v.runs)) = <<>>

TooLong(subject, max) == subject \o " must be " \o ToString(max) \o " characters or less"

\* validatePostData
ValidatePostData(title, body, userId) ==
    LET errors ==
            (IF Blank(title) THEN <<"Title is required">>
             ELSE IF RunsLength(title.runs) > POST_TITLE_MAX_LENGTH
             THEN <<TooLong("Title", POST_TITLE_MAX_LENGTH)>> ELSE <<>>)
            \o (IF Blank(body) THEN <<"Content is required">>
                ELSE IF RunsLength(body.runs) > POST_BODY_MAX_LENGTH
                THEN <<TooLong("Content", POST_BODY_MAX_LENGTH)>> ELSE <<>>)
            \o (IF Falsy(userId) \/ LessThan(userId, MIN_USER_ID)
                THEN <<"Valid user ID is required">> ELSE <<>>)
    IN  [isValid |-> (errors = <<>>), errors |-> errors]

\* sanitizeInput: the characters of the trimmed input, none for a non-string
SanitizeInput(v) == IF v.t # "string" THEN <<>> ELSE Trim(Chars(v.runs))

\* A bug validateSearchTerm does not have: the term is cut before it is trimmed.
ValidateSearchTerm_CutFirst(v) ==
    IF Falsy(v) \/ v.t # "string" THEN <<>>
    ELSE Trim(SliceTo(Chars(v.runs), SearchTermLimit))

\* A bug validateSearchTerm does not have: the term is cut and not trimmed.
ValidateSearchTerm_NoTrim(v) ==
    IF Falsy(v) \/ v.t # "string" THEN <<>>
    ELSE SliceTo(Chars(v.runs), SearchTermLimit)

\* validateSearchTerm: the characters of the result
ValidateSearchTerm(v) ==
    IF Falsy(v) \/ v.t # "string" THEN <<>>
    ELSE SliceTo(Trim(Chars(v.runs)), SearchTermLimit)

\* `parseInt(x) || d`
ParseIntOr(v, d) == IF Falsy(ParseInt(v)) THEN d ELSE ParseInt(v).num

\* A bug validatePaginationParams does not have: the limit has no upper bound.
ValidatePaginationParams_NoCap(page, limit) ==
    [page |-> Max(1, ParseIntOr(page, DEFAULT_PAGE)),
     limit |-> Max(1, ParseIntOr(limit, DEFAULT_LIMIT))]

\* validatePaginationParams
ValidatePaginationParams(page, limit) ==
    [page |-> Max(1, ParseIntOr(page, DEFAULT_PAGE)),
     limit |-> Min(MAX_LIMIT, Max(1, ParseIntOr(limit, DEFAULT_LIMIT)))]

(***************************************************************************)
(* SpecValid: one call of a function of utils/validation.js, with          *)
(* arguments of every type and on both sides of every limit.               *)
(***************************************************************************)
Text(ch) == Str(<<Run(ch, 1)>>)
Repeat(ch, n) == Str(<<Run(ch, n)>>)

Titles ==
    {JsUndefined, Num(5), Str(<<>>), Repeat(" ", 3), Text("T"),
     Str(<<Run(" ", 1), Run("T", 1), Run(" ", 1)>>),
     Repeat("x", POST_TITLE_MAX_LENGTH), Repeat("x", POST_TITLE_MAX_LENGTH + 1),
     Str(<<Run("x", POST_TITLE_MAX_LENGTH), Run(" ", 1)>>)}

Bodies ==
    {JsUndefined, Str(<<>>), Repeat(" ", 1), Text("B"),
     Repeat("x", POST_BODY_MAX_LENGTH), Repeat("x", POST_BODY_MAX_LENGTH + 1)}

UserIds ==
    {JsUndefined, JsNullValue, JsObject, Num(0), Num(1), Num(2), Num(0 - 1),
     Text("2"), Text("0"), Str(<<Run("a", 1), Run("b", 1), Run("c", 1)>>)}

PageInputs ==
    {JsUndefined, JsNullValue, Num(0 - 5), Num(0), Num(1), Num(2), Num(MAX_LIMIT), Num(MAX_LIMIT + 1),
     Str(<<>>), Text("0"), Text("7"), Repeat("9", 4),
     Str(<<Run("-", 1), Run("5", 1)>>),
     Str(<<Run("a", 1), Run("b", 1), Run("c", 1)>>),
     Str(<<Run("1", 1), Run("2", 1), Run("a", 1)>>),
     Str(<<Run(" ", 1), Run("3", 1)>>)}

SearchInputs ==
    {JsUndefined, JsNullValue, Num(0), Num(5), Str(<<>>), Repeat(" ", 3),
     Str(<<Run(" ", 2), Run("a", 3), Run(" ", 1), Run("b", 2), Run(" ", 2)>>),
     Repeat("x", SearchTermLimit), Repeat("x", SearchTermLimit + 1), Repeat("x", 150),
     Str(<<Run(" ", 1), Run("x", SearchTermLimit), Run("y", 1)>>),
     Str(<<Run("x", SearchTermLimit - 1), Run(" ", 5), Run("y", 1)>>)}

ValidCalls ==
    {[fn |-> "validatePostData", pc |-> "called", title |-> t, body |-> b, userId |-> u] :
         t \in Titles, b \in Bodies, u \in UserIds}
        \cup {[fn |-> "validatePaginationParams", pc |-> "called", page |-> p, limit |-> l] :
                  p \in PageInputs, l \in PageInputs}
        \cup {[fn |-> "validateSearchTerm", pc |-> "called", searchTerm |-> v] : v \in SearchInputs}

InitValid ==
    /\ HookInit
    /\ client = [pc |-> "idle"]
    /\ view = NoView
    /\ dash = NoDash
    /\ overtaken = NoOrder
    /\ calc \in ValidCalls

Returned(result) == calc' = [calc EXCEPT !.pc = "returned"] @@ [result |-> result]

CallValidatePostData ==
    /\ calc.fn = "validatePostData" /\ calc.pc = "called"
    /\ Returned(ValidatePostData(calc.title, calc.body, calc.userId))

CallValidatePaginationParams ==
    /\ calc.fn = "validatePaginationParams" /\ calc.pc = "called"
    /\ Returned(ValidatePaginationParams(calc.page, calc.limit))

CallValidateSearchTerm ==
    /\ calc.fn = "validateSearchTerm" /\ calc.pc = "called"
    /\ Returned(ValidateSearchTerm(calc.searchTerm))

\* The string that has these characters.
StrOf(chars) == Str([k \in 1..Len(chars) |-> Run(chars[k], 1)])

\* validateSearchTerm is called on what validateSearchTerm returned.
CallValidateSearchTermAgain ==
    /\ calc.fn = "validateSearchTerm" /\ calc.pc = "returned"
    /\ calc' = [calc EXCEPT !.pc = "reapplied"]
                    @@ [again |-> ValidateSearchTerm(StrOf(calc.result))]

NextValid ==
    \/ CallValidatePostData /\ UNCHANGED <<hookVars, client, view, dash, overtaken>>
    \/ CallValidatePaginationParams /\ UNCHANGED <<hookVars, client, view, dash, overtaken>>
    \/ CallValidateSearchTerm /\ UNCHANGED <<hookVars, client, view, dash, overtaken>>
    \/ CallValidateSearchTermAgain /\ UNCHANGED <<hookVars, client, view, dash, overtaken>>

SpecValid == InitValid /\ [][NextValid]_vars

(***************************************************************************)
(* SpecRace: overlapping fetchPosts calls on one usePostsApi instance,     *)
(* settling in any order. `overtaken` records the order: for each call in  *)
(* flight whether a call issued after it has settled already, and whether  *)
(* that held of the call that settled last.                                *)
(***************************************************************************)
RaceWorld ==
    [rejects |-> {"Failed to fetch"},
     statuses |-> {OK, NOT_FOUND},
     raw |-> {},
     errors |-> {"not found"},
     lists |-> {Ascending(n) : n \in 0..MaxId} \cup {Rotated(MaxId)}]

FetchPostsRace ==
    /\ FetchPosts
    /\ overtaken' = [calls |-> Append(overtaken.calls, FALSE), settled |-> FALSE]
    /\ UNCHANGED <<view, dash, calc>>

FetchPostsSettledRace(i, net) ==
    /\ FetchPostsSettled(i, net)
    /\ overtaken' = [calls |-> [j \in 1..(Len(calls) - 1) |->
                                   IF j < i THEN TRUE ELSE overtaken.calls[j + 1]],
                     settled |-> overtaken.calls[i]]
    /\ UNCHANGED <<view, dash, calc>>

NextRace ==
    \/ FetchPostsRace
    \/ \E i \in 1..Len(calls) : \E net \in Nets(calls[i].method, RaceWorld) :
           FetchPostsSettledRace(i, net)

SpecRace == Init /\ [][NextRace]_vars

(***************************************************************************)
(* components/PostsList.jsx in its version on usePostsApi (kept as         *)
(* src/unnamed/part_001), mounted, with the backend it talks to.           *)
(*                                                                         *)
(* The component renders nothing but "Loading" while loading is true and   *)
(* nothing but the error and "Try Again" while error is set, so the        *)
(* handlers of the list can only run when neither holds. A handler runs to *)
(* its end in one step; when it changed currentPage or searchTerm the      *)
(* effect is pending (pc = "effect") and runs next, before any other       *)
(* event. handleDeletePost resumes after `await deletePost(postId)` in a   *)
(* step of its own (pc = "afterDelete"), with the posts, currentPage and   *)
(* searchTerm of the render in which the button was clicked.               *)
(***************************************************************************)

\* The backend holds the posts 1..DbSize at first: one more than fits a page.
DbSize == DEFAULT_LIMIT + 1

\* The backend's search: every post matches the empty term, the posts with an
\* odd id are those that contain "a", and no post contains anything else.
Matches(id, term) == term = <<>> \/ (term = <<"a">> /\ id % 2 = 1)

\* The posts of a set of ids, by ascending id.
Listed(ids) ==
    [k \in 1..Cardinality(ids) |->
        Post(CHOOSE i \in ids : Cardinality({j \in ids : j <= i}) = k)]

CeilDiv(a, b) == (a + b - 1) \div b

\* How many posts page `page` shows when `total` posts are paged by `limit`.
PageLength(total, page, limit) == Max(0, Min(limit, total - (page - 1) * limit))

\* GET /posts?page&limit&search answered by a backend that holds db.
GetAllResponse(db, params) ==
    LET found == Listed({i \in db : Matches(i, params.search)})
        from == (params.page - 1) * params.limit + 1
        upto == Min(params.page * params.limit, Len(found))
    IN  NetResponse(OK, Envelope(TRUE,
            [posts |-> SubSeq(found, from, upto),
             pagination |-> Pagination(params.page, CeilDiv(Len(found), params.limit), Len(found))],
            Null))

\* DELETE /posts/:id answered by a backend that holds db.
DeleteResponse(db, id) ==
    IF id \in db
    THEN NetResponse(OK, Envelope(TRUE, [message |-> "Post deleted successfully"], Null))
    ELSE NetResponse(NOT_FOUND, Envelope(FALSE, JsNull, "not found"))

\* What else can happen to a request of the list: the network or the server fails.
ListFailures ==
    {NetReject("Failed to fetch"),
     NetResponse(INTERNAL_SERVER_ERROR, Envelope(FALSE, JsNull, "server error"))}

\* What the user can type into the search box.
SearchTexts == {Str(<<>>), Text("a"), Str(<<Run(" ", 1), Run("a", 1)>>)}

NoParams == [page |-> 0]
NoDelete == [phase |-> "none"]

\* loadPosts(page, search): the params passed to fetchPosts
LoadPostsParams(page, search) ==
    [page |-> page, limit |-> DEFAULT_LIMIT, search |-> ValidateSearchTerm(search)]

\* PostsList is mounted: its first effect is pending.
ListMounted ==
    [mounted |-> TRUE, currentPage |-> 1, searchTerm |-> Str(<<>>), searchInput |-> Str(<<>>),
     pc |-> "effect", event |-> "mount",
     req |-> NoParams,      \* the params of the fetch issued last
     shown |-> NoParams,    \* the params of the fetch whose response is on display
     removed |-> 0,         \* the posts deletePost has removed from that response
     delete |-> NoDelete,   \* the last click on a delete button, until another handler runs
     db |-> 1..DbSize]

InitList ==
    /\ HookInit
    /\ client = [pc |-> "idle"]
    /\ view = ListMounted
    /\ dash = NoDash
    /\ calc = NoCalc
    /\ overtaken = NoOrder

\* The list is on display and its handlers can run.
Interactive == view.pc = "idle" /\ ~loading /\ error = Null

\* The click on a delete button has been followed by a list fetch for `page`.
Followed(click, page) ==
    IF click.phase # "none"
    THEN [click EXCEPT !.fetched = @ + 1, !.fetchedPage = page]
    ELSE click

\* A list fetch is issued by loadPosts(page, search); click is what is then
\* known of the last click on a delete button.
LoadPosts(page, search, event, click) ==
    /\ FetchPosts
    /\ view' = [view EXCEPT !.pc = "idle", !.event = event,
                            !.req = LoadPostsParams(page, search),
                            !.delete = click]

\* useEffect(() => { loadPosts(currentPage, searchTerm) }, [refreshTrigger, currentPage, searchTerm])
ListEffect ==
    /\ view.pc = "effect"
    /\ LoadPosts(view.currentPage, view.searchTerm, "effect",
                 Followed(view.delete, view.currentPage))

\* The effect is pending after a handler that changed currentPage or searchTerm.
AfterHandler(page, term) ==
    IF page # view.currentPage \/ term # view.searchTerm THEN "effect" ELSE "idle"

\* A bug the search box does not have: what is typed is searched for at once.
EditSearch_Live(text) ==
    /\ Interactive
    /\ view' = [view EXCEPT !.searchInput = text, !.searchTerm = text,
                            !.pc = AfterHandler(view.currentPage, text),
                            !.event = "edit", !.delete = NoDelete]
    /\ UNCHANGED <<hookVars, client>>

\* onChange of the search box: setSearchInput(e.target.value)
EditSearch(text) ==
    /\ Interactive
    /\ view' = [view EXCEPT !.searchInput = text, !.event = "edit", !.delete = NoDelete]
    /\ UNCHANGED <<hookVars, client>>

\* handleSearch
HandleSearch ==
    /\ Interactive
    /\ view' = [view EXCEPT !.searchTerm = view.searchInput, !.currentPage = 1,
                            !.pc = AfterHandler(1, view.searchInput),
                            !.event = "submit", !.delete = NoDelete]
    /\ UNCHANGED <<hookVars, client>>

\* clearSearch; the button is rendered when searchTerm is truthy
ClearSearch ==
    /\ Interactive
    /\ view.searchTerm # Str(<<>>)
    /\ view' = [view EXCEPT !.searchInput = Str(<<>>), !.searchTerm = Str(<<>>), !.currentPage = 1,
                            !.pc = AfterHandler(1, Str(<<>>)),
                            !.event = "clear", !.delete = NoDelete]
    /\ UNCHANGED <<hookVars, client>>

\* The pages the pagination controls offer: Previous and Next unless disabled,
\* and the numbered buttons (the first, the last, those within 2 of currentPage).
OfferedPages ==
    IF posts = <<>> \/ pagination = EmptyPagination \/ pagination.totalPages <= 1
    THEN {}
    ELSE {p \in 1..pagination.totalPages :
              p = 1 \/ p = pagination.totalPages \/ p - view.currentPage \in -2..2}
            \cup (IF pagination.hasPrevPage THEN {view.currentPage - 1} ELSE {})
            \cup (IF pagination.hasNextPage THEN {view.currentPage + 1} ELSE {})

\* handlePageChange
HandlePageChange(newPage) ==
    /\ Interactive
    /\ newPage \in OfferedPages
    /\ view' = [view EXCEPT !.currentPage = newPage,
                            !.pc = AfterHandler(newPage, view.searchTerm),
                            !.event = "page", !.delete = NoDelete]
    /\ UNCHANGED <<hookVars, client>>

\* What a click on a delete button finds: the post, and the list, the page and
\* the term of the render whose handler runs.
Clicked(phase, postId) ==
    [phase |-> phase, id |-> postId, posts |-> posts, page |-> view.currentPage,
     search |-> view.searchTerm, fetched |-> 0, fetchedPage |-> 0]

\* handleDeletePost when window.confirm returns false
DeleteDeclined(postId) ==
    /\ Interactive
    /\ HoldsPost(posts, postId)
    /\ view' = [view EXCEPT !.event = "declined", !.delete = Clicked("declined", postId)]
    /\ UNCHANGED <<hookVars, client>>

\* handleDeletePost when window.confirm returns true, up to `await deletePost(postId)`
DeleteConfirmed(postId) ==
    /\ Interactive
    /\ HoldsPost(posts, postId)
    /\ DeletePost(postId)
    /\ view' = [view EXCEPT !.event = "delete", !.delete = Clicked("pending", postId)]

\* handleRetry: clearError(); loadPosts(currentPage, searchTerm)
HandleRetry ==
    /\ view.pc = "idle" /\ ~loading /\ error # Null
    /\ LoadPosts(view.currentPage, view.searchTerm, "retry", NoDelete)

\* The fetch in flight is answered: fetchPosts runs to its end, and loadPosts
\* swallows the error of a failure.
ListFetchSettled(net) ==
    /\ calls # <<>>
    /\ FetchPostsSettled(1, net)
    /\ view' = IF SuccessEnvelope(ApiRequest(net))
               THEN [view EXCEPT !.event = "fetched", !.shown = view.req, !.removed = 0]
               ELSE [view EXCEPT !.event = "fetchFailed"]

\* The delete in flight is answered: deletePost runs to its end; the backend
\* has removed the post when it says so. handleDeletePost goes on after the
\* await when deletePost resolved, and into its catch block when it rejected.
ListDeleteSettled(net) ==
    /\ calls # <<>>
    /\ DeletePostSettled(1, net)
    /\ LET done == SuccessEnvelope(ApiRequest(net))
       IN  view' = [view EXCEPT
                       !.event = IF done THEN "deleted" ELSE "deleteFailed",
                       !.pc = IF IsResolved(ApiRequest(net)) THEN "afterDelete" ELSE "idle",
                       !.removed = IF done THEN @ + 1 ELSE @,
                       !.delete = [@ EXCEPT !.phase = IF done THEN "succeeded" ELSE "failed"],
                       !.db = IF done THEN @ \ {calls[1].id} ELSE @]

\* A bug handleDeletePost does not have: it looks at the list as it is after
\* the removal, not as it was when the button was clicked.
ListAfterDelete_ReadsCurrentList ==
    /\ view.pc = "afterDelete"
    /\ IF Len(posts) = 1 /\ view.delete.page > 1
       THEN /\ view' = [view EXCEPT !.currentPage = @ - 1, !.pc = "effect", !.event = "stepBack"]
            /\ UNCHANGED <<hookVars, client>>
       ELSE LoadPosts(view.delete.page, view.delete.search, "reload",
                      Followed(view.delete, view.delete.page))

\* handleDeletePost after `await deletePost(postId)`:
\* `if (posts.length === 1 && currentPage > 1) setCurrentPage(prev => prev - 1)
\*  else loadPosts(currentPage, searchTerm)`
ListAfterDelete ==
    /\ view.pc = "afterDelete"
    /\ IF Len(view.delete.posts) = 1 /\ view.delete.page > 1
       THEN /\ view' = [view EXCEPT !.currentPage = @ - 1, !.pc = "effect", !.event = "stepBack"]
            /\ UNCHANGED <<hookVars, client>>
       ELSE LoadPosts(view.delete.page, view.delete.search, "reload",
                      Followed(view.delete, view.delete.page))

\* The answers to the request in flight.
ListNets ==
    IF calls = <<>> THEN {}
    ELSE ListFailures
            \cup (IF calls[1].op = "fetchPosts"
                  THEN {GetAllResponse(view.db, view.req)}
                  ELSE {DeleteResponse(view.db, calls[1].id)})

NextList ==
    \/ ListEffect /\ UNCHANGED <<dash, calc, overtaken>>
    \/ \E text \in SearchTexts : EditSearch(text) /\ UNCHANGED <<dash, calc, overtaken>>
    \/ HandleSearch /\ UNCHANGED <<dash, calc, overtaken>>
    \/ ClearSearch /\ UNCHANGED <<dash, calc, overtaken>>
    \/ \E newPage \in OfferedPages : HandlePageChange(newPage) /\ UNCHANGED <<dash, calc, overtaken>>
    \/ \E postId \in 1..DbSize : DeleteDeclined(postId) /\ UNCHANGED <<dash, calc, overtaken>>
    \/ \E postId \in 1..DbSize : DeleteConfirmed(postId) /\ UNCHANGED <<dash, calc, overtaken>>
    \/ HandleRetry /\ UNCHANGED <<dash, calc, overtaken>>
    \/ \E net \in ListNets : ListFetchSettled(net) /\ UNCHANGED <<dash, calc, overtaken>>
    \/ \E net \in ListNets : ListDeleteSettled(net) /\ UNCHANGED <<dash, calc, overtaken>>
    \/ ListAfterDelete /\ UNCHANGED <<dash, calc, overtaken>>

SpecList == InitList /\ [][NextList]_vars

\* The request in flight is answered or fails.
ListResponds ==
    /\ \E net \in ListNets : ListFetchSettled(net) \/ ListDeleteSettled(net)
    /\ UNCHANGED <<dash, calc, overtaken>>

\* The code that is ready to run runs: the pending effect, and handleDeletePost
\* after its await.
ListContinues ==
    /\ ListEffect \/ ListAfterDelete
    /\ UNCHANGED <<dash, calc, overtaken>>

\* The list when every request issued is eventually answered or fails, and the
\* event loop runs what is ready. The user is under no obligation.
SpecListFair == SpecList /\ WF_vars(ListResponds) /\ WF_vars(ListContinues)

(***************************************************************************)
(* components/Dashboard.jsx (documented in src/unnamed/part_002) with      *)
(* components/AddPost.jsx on its "add" tab and PostsList on its "posts"    *)
(* tab. Only the component of the active tab is mounted.                   *)
(*                                                                         *)
(* loading, error and calls are those of the useApiCall instance of the    *)
(* mounted AddPost. When AddPost is unmounted its state is gone; a create  *)
(* request it has in flight is not aborted (dash.orphans counts those),    *)
(* and when the response arrives handleSubmit goes on with the closure it  *)
(* has: its setForm and setSuccess reach no component, its onPostAdded is  *)
(* Dashboard's handlePostAdded. The state updates of one continuation are  *)
(* rendered together. Of PostsList only its effect is kept: the list fetch *)
(* that mounting it, or a new refreshTrigger, issues.                      *)
(***************************************************************************)
InitialForm == [title |-> Str(<<>>), body |-> Str(<<>>), user_id |-> Num(1)]

\* What the user can type into the form; the user id field passes
\* `parseInt(e.target.value) || 1`.
FormValues ==
    [title : {Str(<<>>), Text("T"), Str(<<Run(" ", 1), Run("T", 1), Run(" ", 1)>>),
              Repeat("x", POST_TITLE_MAX_LENGTH + 1)},
     body : {Str(<<>>), Text("B"), Str(<<Run("B", 1), Run(" ", 1)>>)},
     user_id : {Text("1"), Text("2"), Str(<<Run("-", 1), Run("1", 1)>>), Str(<<>>)}]

\* The characters as one string.
RECURSIVE Join(_)
Join(chars) == IF chars = <<>> THEN "" ELSE chars[1] \o Join(Tail(chars))

\* sanitizedForm
SanitizedForm(form) ==
    [title |-> Join(SanitizeInput(form.title)),
     body |-> Join(SanitizeInput(form.body)),
     user_id |-> form.user_id.num]

DashWorld ==
    [rejects |-> {"Failed to fetch"},
     statuses |-> {CREATED, INTERNAL_SERVER_ERROR},
     raw |-> {JsNull},
     errors |-> {"server error"},
     lists |-> {}]

NoSent == [title |-> "", body |-> "", user_id |-> 0]
NotAdded == [count |-> 0]

DashMounted ==
    [mounted |-> TRUE, activeTab |-> "posts", refreshPosts |-> 0,
     form |-> InitialForm, success |-> FALSE,
     timers |-> 0,          \* the setTimeout callbacks that have not run
     orphans |-> 0,         \* the create requests in flight whose AddPost is unmounted
     listPc |-> "effect",   \* "effect" while the effect of PostsList is pending
     loadedFor |-> 0,       \* the refreshTrigger of the render whose effect ran last
     listCalls |-> 0,       \* the fetchPosts calls in flight on the hook of the mounted PostsList
     sent |-> NoSent,       \* the body of the create request issued last
     added |-> NotAdded,    \* the onPostAdded calls of the step taken last
     event |-> "mount"]

InitDash ==
    /\ HookInit
    /\ client = [pc |-> "idle"]
    /\ view = NoView
    /\ dash = DashMounted
    /\ calc = NoCalc
    /\ overtaken = NoOrder

\* isApiSuccess(response): `response && response.success === true`
IsApiSuccess(p) == SuccessEnvelope(p)

\* AddPost is unmounted: the useApiCall instance of the next AddPost starts afresh.
AddPostUnmounted ==
    /\ loading' = FALSE
    /\ error' = Null
    /\ calls' = <<>>
    /\ last' = [kind |-> "init"]
    /\ UNCHANGED <<posts, pagination, client>>

\* A bug handlePostAdded does not have: the counter is left alone.
HandlePostAdded_NoRefresh(d) == [d EXCEPT !.activeTab = "posts"]

\* handlePostAdded: setRefreshPosts(prev => prev + 1); setActiveTab('posts')
HandlePostAdded(d) == [d EXCEPT !.refreshPosts = @ + 1, !.activeTab = "posts"]

\* The effect of PostsList is pending when PostsList has just been mounted or
\* its refreshTrigger has changed.
ListPcAfter(d) ==
    IF d.activeTab = "posts" /\ (dash.activeTab # "posts" \/ d.refreshPosts # dash.refreshPosts)
    THEN "effect" ELSE "idle"

\* onClick={() => setActiveTab(tab)}
TabClick(tab) ==
    /\ dash.listPc = "idle"
    /\ dash.orphans + Len(calls) <= MaxInFlight
    /\ LET d == [dash EXCEPT !.activeTab = tab]
       IN  IF tab = dash.activeTab
           THEN /\ dash' = [dash EXCEPT !.event = "tab", !.added = NotAdded]
                /\ UNCHANGED <<hookVars, client>>
           ELSE /\ dash' = [d EXCEPT !.form = InitialForm, !.success = FALSE,
                                     !.orphans = @ + Len(calls),
                                     !.listPc = ListPcAfter(d),
                                     !.listCalls = 0,
                                     !.event = "tab", !.added = NotAdded]
                /\ AddPostUnmounted

\* PostsList: useEffect(() => { loadPosts(currentPage, searchTerm) }, [refreshTrigger, ...])
DashListEffect ==
    /\ dash.listPc = "effect"
    /\ dash' = [dash EXCEPT !.listPc = "idle", !.loadedFor = dash.refreshPosts,
                            !.listCalls = @ + 1,
                            !.event = "listLoad", !.added = NotAdded]
    /\ UNCHANGED <<hookVars, client>>

\* A fetch of the mounted PostsList is answered (with a list or a failure):
\* execute runs to its end.
DashListSettled ==
    /\ dash.listCalls > 0
    /\ dash.listPc = "idle"
    /\ dash' = [dash EXCEPT !.listCalls = @ - 1, !.event = "listSettled", !.added = NotAdded]
    /\ UNCHANGED <<hookVars, client>>

\* AddPost is on display and its inputs are enabled.
FormEnabled == dash.activeTab = "add" /\ dash.listPc = "idle" /\ ~loading

\* handleInputChange(field, value)
HandleInputChange(field, value) ==
    /\ FormEnabled
    /\ dash' = [dash EXCEPT !.form[field] = IF field = "user_id" THEN Num(ParseIntOr(value, 1)) ELSE value,
                            !.event = "input", !.added = NotAdded]
    /\ IF error # Null THEN ClearError ELSE UNCHANGED <<hookVars, client>>

\* handleSubmit up to `await execute(() => postsApi.create(sanitizedForm))`; the
\* submit button is disabled while title or body is blank.
HandleSubmit ==
    /\ FormEnabled
    /\ Trim(Chars(dash.form.title.runs)) # <<>>
    /\ Trim(Chars(dash.form.body.runs)) # <<>>
    /\ dash.refreshPosts + dash.orphans < MaxRefresh
    /\ IF ValidatePostData(dash.form.title, dash.form.body, dash.form.user_id).isValid
       THEN /\ Call("handleSubmit", "create", 0, SanitizedForm(dash.form))
            /\ dash' = [dash EXCEPT !.sent = SanitizedForm(dash.form),
                                    !.event = "submit", !.added = NotAdded]
       ELSE /\ dash' = [dash EXCEPT !.event = "invalid", !.added = NotAdded]
            /\ UNCHANGED <<hookVars, client>>

\* handleSubmit after the await, for a response that isApiSuccess accepts:
\* setForm, setSuccess(true), onPostAdded(response.data), setTimeout. The
\* Dashboard it leaves shows the list, so the AddPost that was on display, if
\* any, is unmounted with what it has in flight.
PostCreated(created, inFlight, event) ==
    LET d == HandlePostAdded(dash)
    IN  dash' = [d EXCEPT !.form = InitialForm, !.success = FALSE,
                         !.timers = @ + 1,
                         !.orphans = inFlight,
                         !.listPc = ListPcAfter(d),
                         !.added = [count |-> 1, post |-> created],
                         !.event = event]

\* The create request of the AddPost on display is answered: execute runs to
\* its end and handleSubmit goes on.
AddPostSettled(net) ==
    /\ calls # <<>>
    /\ calls[1].op = "handleSubmit"
    /\ LET res == ApiRequest(net)
       IN  /\ Settle(1, res, posts, pagination, ExecuteOutcome(res))
           /\ IF IsApiSuccess(ExecuteOutcome(res))
              THEN PostCreated(res.value.data, dash.orphans, "created")
              ELSE dash' = [dash EXCEPT !.event = "createFailed", !.added = NotAdded]

\* A create request whose AddPost is unmounted is answered.
OrphanSettled(net) ==
    /\ dash.orphans > 0
    /\ dash.listPc = "idle"
    /\ LET res == ApiRequest(net)
       IN  IF IsApiSuccess(ExecuteOutcome(res))
           THEN /\ PostCreated(res.value.data, dash.orphans - 1 + Len(calls), "createdUnmounted")
                /\ AddPostUnmounted
           ELSE /\ dash' = [dash EXCEPT !.orphans = @ - 1,
                                        !.event = "createFailedUnmounted", !.added = NotAdded]
                /\ UNCHANGED <<hookVars, client>>

\* setTimeout(() => setSuccess(false), 3000) runs: the AddPost that set the
\* timer was unmounted when the post was added.
TimerFires ==
    /\ dash.timers > 0
    /\ dash.listPc = "idle"
    /\ dash' = [dash EXCEPT !.timers = @ - 1, !.event = "timer", !.added = NotAdded]
    /\ UNCHANGED <<hookVars, client>>

NextDash ==
    \/ \E tab \in {"posts", "add"} : TabClick(tab) /\ UNCHANGED <<view, calc, overtaken>>
    \/ DashListEffect /\ UNCHANGED <<view, calc, overtaken>>
    \/ DashListSettled /\ UNCHANGED <<view, calc, overtaken>>
    \/ \E field \in {"title", "body", "user_id"} : \E value \in {f[field] : f \in FormValues} :
           HandleInputChange(field, value) /\ UNCHANGED <<view, calc, overtaken>>
    \/ HandleSubmit /\ UNCHANGED <<view, calc, overtaken>>
    \/ \E net \in Nets("create", DashWorld) : AddPostSettled(net) /\ UNCHANGED <<view, calc, overtaken>>
    \/ \E net \in Nets("create", DashWorld) : OrphanSettled(net) /\ UNCHANGED <<view, calc, overtaken>>
    \/ TimerFires /\ UNCHANGED <<view, calc, overtaken>>

SpecDash == InitDash /\ [][NextDash]_vars

(***************************************************************************)
(* Dashboard with the list in full: PostsList as in SpecList on the "posts" *)
(* tab, AddPost as in SpecDash on the "add" tab, and one backend. Only the *)
(* component of the active tab is mounted, so loading, error, posts,       *)
(* pagination and calls are those of the hook instance of that component;  *)
(* a component that is mounted starts from its useState initial values. A  *)
(* list fetch whose PostsList is unmounted changes nothing when it is      *)
(* answered and is not kept. The list is searched and paged here; deleting *)
(* from it is followed in SpecList.                                        *)
(***************************************************************************)

\* PostsList leaves the tree: of `view` the backend's posts remain; `left` is
\* the state the list had, which no component holds any more.
ListUnmounted(v) ==
    [mounted |-> FALSE, db |-> v.db,
     left |-> [page |-> v.currentPage, search |-> v.searchTerm, input |-> v.searchInput]]

\* A bug the list does not have: it is hidden, not unmounted, and shown again
\* as it was.
ListRemounted_AsItWas(v) ==
    [ListMounted EXCEPT !.db = v.db, !.currentPage = v.left.page,
                        !.searchTerm = v.left.search, !.searchInput = v.left.input]
        @@ [left |-> v.left]

\* PostsList enters the tree: useState(1), useState(''), useState(''), and
\* the effect is pending.
ListRemounted(v) == [ListMounted EXCEPT !.db = v.db] @@ [left |-> v.left]

\* The id the backend gives the next post.
NewId(db) == IF db = {} THEN 1 ELSE (CHOOSE i \in db : \A j \in db : j <= i) + 1

\* POST /posts answered by a backend that holds db.
CreateResponse(db) == NetResponse(CREATED, Envelope(TRUE, Post(NewId(db)), Null))

\* The answers to a create request.
CreateNets == ListFailures \cup {CreateResponse(view.db)}

\* The backend's posts after the request answered with net.
DbAfter(net) ==
    IF IsApiSuccess(ExecuteOutcome(ApiRequest(net)))
    THEN view.db \cup {ApiRequest(net).value.data.id}
    ELSE view.db

InitTabs ==
    /\ HookInit
    /\ client = [pc |-> "idle"]
    /\ view = ListMounted
    /\ dash = DashMounted
    /\ calc = NoCalc
    /\ overtaken = NoOrder

\* The component of the tab that is left is unmounted, the other one starts
\* with a hook instance of its own.
TabUnmounted ==
    /\ loading' = FALSE
    /\ error' = Null
    /\ posts' = <<>>
    /\ pagination' = EmptyPagination
    /\ calls' = <<>>
    /\ last' = [kind |-> "init"]
    /\ UNCHANGED client

\* No effect of the list is pending and handleDeletePost is not about to resume.
ListSettledDown == dash.listPc = "idle" /\ (view.mounted => view.pc = "idle")

\* The create requests in flight on the hook of AddPost.
AddPostCalls == IF dash.activeTab = "add" THEN Len(calls) ELSE 0

\* onClick={() => setActiveTab(tab)}, with both components
TabsClick(tab) ==
    /\ ListSettledDown
    /\ dash.orphans + AddPostCalls <= MaxInFlight
    /\ IF tab = dash.activeTab
       THEN /\ dash' = [dash EXCEPT !.event = "tab", !.added = NotAdded]
            /\ UNCHANGED <<hookVars, client, view>>
       ELSE /\ dash' = [dash EXCEPT !.activeTab = tab,
                                    !.form = InitialForm, !.success = FALSE,
                                    !.orphans = @ + AddPostCalls,
                                    !.listPc = IF tab = "posts" THEN "effect" ELSE "idle",
                                    !.listCalls = 0,
                                    !.event = "tab", !.added = NotAdded]
            /\ TabUnmounted
            /\ view' = IF tab = "posts" THEN ListRemounted(view) ELSE ListUnmounted(view)

\* What Dashboard knows of the list after a step of the list.
ListMirrored ==
    dash' = [dash EXCEPT !.listPc = IF view'.pc = "effect" THEN "effect" ELSE "idle",
                         !.listCalls = Len(calls'),
                         !.loadedFor = IF view'.event = "effect" THEN dash.refreshPosts ELSE @,
                         !.event = "list", !.added = NotAdded]

\* The create request of the AddPost on display is answered; a success shows
\* the list tab, where PostsList is mounted.
TabsAddSettled(net) ==
    /\ dash.activeTab = "add"
    /\ AddPostSettled(net)
    /\ view' = IF dash'.activeTab = "posts"
               THEN ListRemounted([view EXCEPT !.db = DbAfter(net)])
               ELSE view

\* A create request whose AddPost is unmounted is answered. When the add tab is
\* on display a success shows the list tab; when the list tab is on display
\* PostsList stays mounted and gets a new refreshTrigger.
TabsOrphanSettled(net) ==
    /\ dash.orphans > 0
    /\ ListSettledDown
    /\ LET res == ApiRequest(net)
       IN  IF ~IsApiSuccess(ExecuteOutcome(res))
           THEN /\ dash' = [dash EXCEPT !.orphans = @ - 1,
                                        !.event = "createFailedUnmounted", !.added = NotAdded]
                /\ UNCHANGED <<hookVars, client, view>>
           ELSE IF dash.activeTab = "add"
           THEN /\ PostCreated(res.value.data, dash.orphans - 1 + Len(calls), "createdUnmounted")
                /\ TabUnmounted
                /\ view' = ListRemounted([view EXCEPT !.db = DbAfter(net)])
           ELSE /\ PostCreated(res.value.data, dash.orphans - 1, "createdUnmounted")
                /\ UNCHANGED <<hookVars, client>>
                /\ view' = [view EXCEPT !.pc = "effect", !.event = "refresh",
                                        !.db = DbAfter(net)]

NextTabs ==
    \/ \E tab \in {"posts", "add"} : TabsClick(tab) /\ UNCHANGED <<calc, overtaken>>
    \/ \E field \in {"title", "body"} : \E value \in {Text("T"), Str(<<>>)} :
           HandleInputChange(field, value) /\ UNCHANGED <<view, calc, overtaken>>
    \/ HandleSubmit /\ ListSettledDown /\ UNCHANGED <<view, calc, overtaken>>
    \/ dash.activeTab = "add" /\ \E net \in CreateNets :
           TabsAddSettled(net) /\ UNCHANGED <<calc, overtaken>>
    \/ \E net \in CreateNets : TabsOrphanSettled(net) /\ UNCHANGED <<calc, overtaken>>
    \/ TimerFires /\ ListSettledDown /\ UNCHANGED <<view, calc, overtaken>>
    \/ view.mounted /\ ListEffect /\ ListMirrored /\ UNCHANGED <<calc, overtaken>>
    \/ view.mounted /\ (\E text \in SearchTexts : EditSearch(text))
           /\ ListMirrored /\ UNCHANGED <<calc, overtaken>>
    \/ view.mounted /\ HandleSearch /\ ListMirrored /\ UNCHANGED <<calc, overtaken>>
    \/ view.mounted /\ ClearSearch /\ ListMirrored /\ UNCHANGED <<calc, overtaken>>
    \/ view.mounted /\ (\E newPage \in OfferedPages : HandlePageChange(newPage))
           /\ ListMirrored /\ UNCHANGED <<calc, overtaken>>
    \/ view.mounted /\ HandleRetry /\ ListMirrored /\ UNCHANGED <<calc, overtaken>>
    \/ view.mounted /\ (\E net \in ListNets : ListFetchSettled(net))
           /\ ListMirrored /\ UNCHANGED <<calc, overtaken>>

SpecTabs == InitTabs /\ [][NextTabs]_vars

(***************************************************************************)
(* Claims.                                                                 *)
(***************************************************************************)
Settled == last.kind = "settle"
HoldsId(list, id) == \E k \in 1..Len(list) : list[k].id = id

\* C1: in every reachable state of the hook instance, loading is true only if
\* some call started by execute has not settled yet; with no call in flight,
\* loading is false.
C1_LoadingOnlyInFlight == loading => calls # <<>>

\* C1 witness: two calls overlap, the second has just started, loading is true.
C1_Witness == loading /\ Len(calls) = 2 /\ last.kind = "start"

\* C2: when the operation passed to execute fails, the error's message is in
\* the error state, loading is false, and execute rejects with the very error
\* the operation failed with.
C2_FailureRecordedAndRethrown ==
    (Settled /\ IsRejected(last.res)) =>
        /\ error = last.res.error.message
        /\ loading = FALSE
        /\ IsRejected(last.exec)
        /\ last.exec.error = last.res.error

\* C2 witness: a request answered with HTTP 404 has just settled a call.
C2_Witness ==
    /\ Settled
    /\ IsRejected(last.res)
    /\ last.res.error.status = NOT_FOUND
    /\ error = "not found"

\* C3: a call that starts sets loading=true and error=null; when the operation
\* succeeds, execute resolves with exactly the operation's result and, if no
\* other call overlapped this one, leaves loading=false and error=null.
C3_StartResetsSuccessReturns ==
    /\ last.kind = "start" => (loading = TRUE /\ error = Null)
    /\ (Settled /\ IsResolved(last.res)) =>
           /\ IsResolved(last.exec)
           /\ last.exec.value = last.res.value
           /\ ~last.overlapped => (loading = FALSE /\ error = Null)

\* C3 witness: a call no other call overlapped has just succeeded with an envelope.
C3_Witness ==
    /\ Settled
    /\ SuccessEnvelope(last.res)
    /\ ~last.overlapped
    /\ last.requests = 1

\* C4: a step that settles a fetchPosts call overwrites posts and pagination
\* with the response's list and pagination (the empty list and the empty
\* pagination when the data carries none) if getAll resolved with a successful
\* envelope, and otherwise leaves both as they were; a failure shows in the
\* error state.
C4_FetchOverwritesOnlyOnSuccess ==
    [][ (last'.kind = "settle" /\ last'.op = "fetchPosts") =>
            IF SuccessEnvelope(last'.res)
            THEN LET data == last'.res.value.data
                 IN  /\ "posts" \in DOMAIN data => posts' = data.posts
                     /\ "posts" \notin DOMAIN data => posts' = <<>>
                     /\ "pagination" \in DOMAIN data => pagination' = data.pagination
                     /\ "pagination" \notin DOMAIN data => pagination' = EmptyPagination
            ELSE /\ posts' = posts
                 /\ pagination' = pagination
                 /\ IsRejected(last'.res) => error' = last'.res.error.message
      ]_vars

\* C4 witness: a fetch has just failed and the list fetched before is still there.
C4_Witness ==
    /\ Settled
    /\ last.op = "fetchPosts"
    /\ IsRejected(last.res)
    /\ posts = Rotated(MaxId)
    /\ pagination \in ServerPaginations
    /\ error # Null

\* new is old without the posts whose id is id: the others are all there, in
\* the order they had.
RemovedExactly(old, new, id) ==
    LET keep == {k \in 1..Len(old) : old[k].id # id}
    IN  /\ Len(new) = Cardinality(keep)
        /\ \A k \in keep : new[Cardinality({j \in keep : j <= k})] = old[k]

\* C5: a step in which deletePost(id) succeeds leaves the list as it was
\* without the post whose id is id, the other posts in their order, and leaves
\* the pagination as it was.
C5_DeleteRemovesExactlyThePost ==
    [][ (last'.kind = "settle" /\ last'.op = "deletePost" /\ SuccessEnvelope(last'.ret)) =>
            /\ RemovedExactly(posts, posts', last'.id)
            /\ ~HoldsId(posts', last'.id)
            /\ Len(posts') = Len(posts) - (IF HoldsId(posts, last'.id) THEN 1 ELSE 0)
            /\ pagination' = pagination
      ]_vars

\* C5 witness: a delete has just succeeded for a post the list held; two posts
\* are left, under the pagination fetched with the list.
C5_Witness ==
    /\ Settled
    /\ last.op = "deletePost"
    /\ SuccessEnvelope(last.ret)
    /\ last.had
    /\ Len(posts) = MaxId - 1
    /\ pagination \in ServerPaginations

\* C6: deletePost removes the post from the list before the delete request has
\* completed, and the post stays removed when the deletion fails.
C6_RemovedBeforeCompletion ==
    /\ \A i \in 1..Len(calls) : calls[i].op = "deletePost" => ~HoldsId(posts, calls[i].id)
    /\ (Settled /\ last.op = "deletePost" /\ IsRejected(last.ret)) => ~HoldsId(posts, last.id)

\* The pre-flight failures C7 lists.
ListedRefusal(method, id, postData) ==
    \/ method \in {"getById", "update", "delete"} /\ id = 0
    \/ method = "create" /\ (postData.title = "" \/ postData.body = "" \/ postData.user_id = 0)
    \/ method = "update" /\ (postData.title = "" \/ postData.body = "")

\* C7: a method call that fails a pre-flight check rejects with an ApiError of
\* status 400 and issues no request; a call that passes them issues its request.
C7_PreflightRejectsWithoutRequest ==
    client.pc # "idle" =>
        IF ListedRefusal(client.method, client.id, client.postData)
        THEN /\ client.pc = "done"
             /\ client.requests = 0
             /\ IsRejected(client.result)
             /\ client.result.error.name = "ApiError"
             /\ client.result.error.status = BAD_REQUEST
        ELSE client.requests = 1

\* C7 witness: update was called with an id and without a title.
C7_Witness ==
    /\ client.pc = "done"
    /\ client.method = "update"
    /\ client.id # 0
    /\ client.postData.title = ""
    /\ client.requests = 0

NonOkResponse == client.pc = "done" /\ client.net.kind = "response" /\ ~ResponseOk(client.net.status)

\* C8 as stated: every non-2xx response makes request raise an error with the
\* HTTP status, the body's error field (when present, else "HTTP {status}...")
\* as its message and the body as its response.
C8_Original ==
    NonOkResponse =>
        /\ IsRejected(client.result)
        /\ client.result.error.status = client.net.status
        /\ client.result.error.message =
               IF "error" \in DOMAIN client.net.body /\ client.net.body.error # Null
               THEN client.net.body.error
               ELSE HttpMessage(client.net.status)
        /\ client.result.error.response = client.net.body

\* C8, amended: every non-2xx response whose body parses as JSON to a value
\* other than null makes request raise an error with the HTTP status, the body's
\* error field as its message when that is a non-empty string and "HTTP
\* {status}: {statusText}" otherwise, and the parsed body as its response.
C8_NonOkJsonResponse ==
    (NonOkResponse /\ client.net.body \notin {Unparseable, JsNull}) =>
        /\ IsRejected(client.result)
        /\ client.result.error.name = "ApiError"
        /\ client.result.error.status = client.net.status
        /\ client.result.error.message =
               IF client.net.body.error \notin {Null, ""}
               THEN client.net.body.error
               ELSE HttpMessage(client.net.status)
        /\ client.result.error.response = client.net.body

\* C8 witness: getAll answered with HTTP 404 and {success: false, error: "not found"}.
C8_Witness ==
    /\ client.pc = "done"
    /\ client.method = "getAll"
    /\ client.net = NetResponse(NOT_FOUND, Envelope(FALSE, JsNull, "not found"))
    /\ client.result.error.message = "not found"

\* C9: when fetch rejects or the body cannot be parsed, request raises an
\* ApiError with status 0 and a null response; handleApiError reports
\* isNetworkError exactly for the errors of status 0.
C9_NetworkFailureIsStatusZero ==
    client.pc = "done" =>
        /\ (client.net.kind = "reject"
                \/ (client.net.kind = "response" /\ client.net.body = Unparseable)) =>
               /\ IsRejected(client.result)
               /\ client.result.error.name = "ApiError"
               /\ client.result.error.status = 0
               /\ client.result.error.response = JsNull
        /\ IsRejected(client.result) =>
               (client.info.isNetworkError <=> client.result.error.status = 0)

\* C9 witness: a 200 response whose body is not JSON, reported as a network error.
C9_Witness ==
    /\ client.pc = "done"
    /\ client.net = NetResponse(OK, Unparseable)
    /\ client.info.isNetworkError

C12_LastSettledFetchWins ==
    [][ /\ (last'.kind = "start" /\ last'.op = "fetchPosts") =>
               /\ Len(calls') = Len(calls) + 1
               /\ \A k \in 1..Len(calls) :
                      /\ calls'[k].op = calls[k].op
                      /\ calls'[k].requests = calls[k].requests
                      /\ overtaken'.calls[k] = overtaken.calls[k]
        /\ (last'.kind = "settle" /\ last'.op = "fetchPosts" /\ last'.overlapped
                /\ SuccessEnvelope(last'.res)) =>
               /\ posts' = PostsOf(last'.res.value.data)
               /\ pagination' = PaginationOf(last'.res.value.data)
      ]_vars

\* C12 witness: two fetchPosts calls overlapped, the one issued later settled
\* first, and the list and the pagination are those of the response to the one
\* issued earlier, which settled last.
C12_Witness ==
    /\ Settled
    /\ last.op = "fetchPosts"
    /\ overtaken.settled
    /\ SuccessEnvelope(last.res)
    /\ calls = <<>>
    /\ posts = Rotated(MaxId)
    /\ posts = last.res.value.data.posts
    /\ pagination = last.res.value.data.pagination

\* C20: a step that settles a createPost or updatePost call, with success or
\* with failure, with or without a request, leaves the list and the pagination
\* as they were, and the call settles with what execute settled with.
C20_CreateUpdateLeaveListAlone ==
    [][ (last'.kind = "settle" /\ last'.op \in {"createPost", "updatePost"}) =>
            /\ posts' = posts
            /\ pagination' = pagination
            /\ last'.ret = last'.exec
            /\ last'.exec = ExecuteOutcome(last'.res)
      ]_vars

\* C20 witness: createPost has just succeeded with a post the list does not
\* hold, and the list fetched before is as it was.
C20_Witness ==
    /\ Settled
    /\ last.op = "createPost"
    /\ SuccessEnvelope(last.ret)
    /\ last.ret.value.data = Post(MaxId)
    /\ posts = Ascending(1)
    /\ pagination \in ServerPaginations

\* A call of function fn has returned.
HasReturned(fn) == calc.fn = fn /\ calc.pc = "returned"

\* v is a string that is not blank and has at most max characters.
NonBlankString(v, max) ==
    /\ v.t = "string"
    /\ \E k \in 1..RunsLength(v.runs) : Chars(v.runs)[k] # " "
    /\ RunsLength(v.runs) <= max

\* v is a number, or the decimal notation of one, that is at least n.
AtLeast(v, n) == ToNumber(v).t = "number" /\ ToNumber(v).num >= n

\* The message C13 expects for a field: none when the field is accepted, the
\* one naming the limit when a non-blank string is too long, else `required`.
FieldMessage(v, max, subject, required) ==
    IF NonBlankString(v, max) THEN <<>>
    ELSE IF v.t = "string" /\ (\E k \in 1..RunsLength(v.runs) : Chars(v.runs)[k] # " ")
    THEN <<TooLong(subject, max)>>
    ELSE <<required>>

\* C13: validatePostData returns isValid=true and no errors exactly when title
\* is a non-blank string of at most 255 characters, body a non-blank string of
\* at most 10000 characters and userId at least 1; otherwise isValid=false and
\* errors holds one message per failing field, title, body, userId in this order.
C13_ValidExactlyWhen ==
    HasReturned("validatePostData") =>
        LET titleOk == NonBlankString(calc.title, POST_TITLE_MAX_LENGTH)
            bodyOk == NonBlankString(calc.body, POST_BODY_MAX_LENGTH)
            userOk == AtLeast(calc.userId, MIN_USER_ID)
        IN  /\ calc.result.isValid <=> (titleOk /\ bodyOk /\ userOk)
            /\ calc.result.isValid <=> (calc.result.errors = <<>>)
            /\ calc.result.errors =
                   FieldMessage(calc.title, POST_TITLE_MAX_LENGTH, "Title", "Title is required")
                       \o FieldMessage(calc.body, POST_BODY_MAX_LENGTH, "Content", "Content is required")
                       \o (IF userOk THEN <<>> ELSE <<"Valid user ID is required">>)

\* parseInt finds an integer in v.
Parseable(v) == ParseInt(v).t = "number"

\* C14 as stated: page is at least 1 and limit within [1, 100]; a parseable
\* page below 1 becomes 1, a parseable limit is clamped into [1, 100], and what
\* cannot be parsed gives page 1 and limit 6.
C14_AsStated ==
    HasReturned("validatePaginationParams") =>
        /\ calc.result.page >= 1
        /\ calc.result.limit \in 1..MAX_LIMIT
        /\ (Parseable(calc.page) /\ ParseInt(calc.page).num < 1) => calc.result.page = 1
        /\ Parseable(calc.limit) =>
               calc.result.limit = Min(MAX_LIMIT, Max(1, ParseInt(calc.limit).num))
        /\ ~Parseable(calc.page) => calc.result.page = 1
        /\ ~Parseable(calc.limit) => calc.result.limit = DEFAULT_LIMIT

\* C14, amended: page is at least 1 and limit within [1, 100]; a page parsed
\* as 1 or more is kept, any other gives 1; a limit parsed as a number other
\* than 0 is clamped into [1, 100] (negative becomes 1, above 100 becomes 100),
\* and a limit that cannot be parsed, or is parsed as 0, gives 6.
C14_ClampedOrDefault ==
    HasReturned("validatePaginationParams") =>
        /\ calc.result.page >= 1
        /\ calc.result.limit \in 1..MAX_LIMIT
        /\ calc.result.page =
               IF Parseable(calc.page) /\ ParseInt(calc.page).num >= 1
               THEN ParseInt(calc.page).num ELSE 1
        /\ calc.result.limit =
               IF ~Parseable(calc.limit) \/ ParseInt(calc.limit).num = 0 THEN DEFAULT_LIMIT
               ELSE IF ParseInt(calc.limit).num < 0 THEN 1
               ELSE IF ParseInt(calc.limit).num > MAX_LIMIT THEN MAX_LIMIT
               ELSE ParseInt(calc.limit).num

\* C14 witness: validatePaginationParams("-5", "9999") has returned {page: 1, limit: 100}.
C14_Witness ==
    /\ HasReturned("validatePaginationParams")
    /\ calc.page = Str(<<Run("-", 1), Run("5", 1)>>)
    /\ calc.limit = Repeat("9", 4)
    /\ calc.result = [page |-> 1, limit |-> MAX_LIMIT]

\* C15: validateSearchTerm returns the first 100 characters of the trimmed
\* input, all of it when it has fewer, so never more than 100 characters, and
\* the empty string for an input that is falsy or not a string.
C15_TrimmedAndCut ==
    HasReturned("validateSearchTerm") =>
        /\ Len(calc.result) <= SearchTermLimit
        /\ IF calc.searchTerm.t = "string" /\ calc.searchTerm.runs # <<>>
           THEN LET trimmed == Trim(Chars(calc.searchTerm.runs))
                IN  /\ Len(calc.result) = Min(Len(trimmed), SearchTermLimit)
                    /\ \A k \in 1..Len(calc.result) : calc.result[k] = trimmed[k]
           ELSE calc.result = <<>>

\* C15 witness: 'x'.repeat(150) has come back as 100 characters.
C15_Witness ==
    /\ HasReturned("validateSearchTerm")
    /\ calc.searchTerm = Repeat("x", 150)
    /\ Len(calc.result) = SearchTermLimit
    /\ calc.result[SearchTermLimit] = "x"

\* The pagination on display, the page it was fetched for and the list agree,
\* `removed` posts having left the list since.
PaginationConsistent(removed) ==
    pagination # EmptyPagination =>
        /\ pagination.currentPage = view.shown.page
        /\ pagination.totalPages = CeilDiv(pagination.totalItems, view.shown.limit)
        /\ pagination.hasNextPage <=> pagination.currentPage < pagination.totalPages
        /\ pagination.hasPrevPage <=> pagination.currentPage > 1
        /\ \A k \in 1..Len(posts) : Matches(posts[k].id, view.shown.search)
        /\ Len(posts) + removed =
               PageLength(pagination.totalItems, pagination.currentPage, view.shown.limit)

\* C11 as stated: in every state of the posts hook the pagination fields agree
\* with each other and with the page, limit and search of the list on display.
C11_AsStated == view.mounted => PaginationConsistent(0)

\* C11, amended: the pagination fields are those of the last successful fetch:
\* they agree with each other and with the page, limit and search of that
\* fetch, and the list on display is the page they describe less the posts
\* deletePost has removed since, which the pagination still counts.
C11_PaginationOfLastFetch == view.mounted => PaginationConsistent(view.removed)

\* C11 witness: a post of a full first page has been deleted; the list shows
\* one post fewer than the pagination of the page accounts for.
C11_Witness ==
    /\ view.mounted
    /\ view.removed = 1
    /\ pagination # EmptyPagination
    /\ pagination.totalItems = DbSize
    /\ Len(posts) = DEFAULT_LIMIT - 1

SearchStep(carried) ==
    /\ view'.event = "edit" =>
           /\ view'.searchTerm = view.searchTerm
           /\ view'.currentPage = view.currentPage
           /\ view'.pc = "idle"
           /\ calls' = calls
           /\ view'.req = view.req
    /\ view'.searchTerm # view.searchTerm => view'.event \in {"submit", "clear"}
    /\ view'.event = "submit" =>
           /\ view'.searchTerm = view.searchInput
           /\ view'.searchInput = view.searchInput
           /\ view'.currentPage = 1
    /\ view'.event = "clear" =>
           /\ view'.searchTerm = Str(<<>>)
           /\ view'.searchInput = Str(<<>>)
           /\ view'.currentPage = 1
    /\ (Len(calls') > Len(calls) /\ calls'[Len(calls')].op = "fetchPosts") =>
           view'.req = [page |-> view'.currentPage, limit |-> DEFAULT_LIMIT, search |-> carried]

\* C17 as stated: every fetch carries the committed term.
C17_AsStated == [][view.mounted => SearchStep(Chars(view'.searchTerm.runs))]_vars

\* C17, amended: every fetch carries the committed term trimmed and cut to its
\* first 100 characters.
C17_CommittedTermSanitized ==
    [][view.mounted =>
           SearchStep(SliceTo(Trim(Chars(view'.searchTerm.runs)), SearchTermLimit))]_vars

\* C17 witness: " a" was typed and submitted, and the fetch that followed
\* carries "a".
C17_Witness ==
    /\ view.mounted
    /\ view.event = "effect"
    /\ view.searchTerm = Str(<<Run(" ", 1), Run("a", 1)>>)
    /\ view.req.search = <<"a">>
    /\ calls # <<>>


\* A create request has just been issued by the add form.
JustSubmitted == Len(calls') > Len(calls)

\* The success banner of the add form is on display.
BannerShown(d) == d.activeTab = "add" /\ d.success

\* C18: the add form issues a create request only when validatePostData
\* accepts the form, and the request carries the trimmed title and body; on a
\* successful response the form is cleared, the success banner is shown (a
\* timer is set to hide it) and the parent callback is invoked exactly once with
\* the created post; on a failure the form is kept and the callback is not
\* invoked.
C18_AsStated ==
    [][dash.mounted =>
         /\ JustSubmitted =>
               /\ ValidatePostData(dash.form.title, dash.form.body, dash.form.user_id).isValid
               /\ dash'.sent.title = Join(Trim(Chars(dash.form.title.runs)))
               /\ dash'.sent.body = Join(Trim(Chars(dash.form.body.runs)))
               /\ dash'.sent.user_id = dash.form.user_id.num
         /\ dash'.event = "created" =>
               /\ dash'.form = InitialForm
               /\ BannerShown(dash')
               /\ dash'.timers = dash.timers + 1
               /\ dash'.added = [count |-> 1, post |-> last'.ret.value.data]
         /\ dash'.event = "createFailed" =>
               /\ dash'.form = dash.form
               /\ dash'.added.count = 0]_vars

\* C18 without the banner: everything else the claim says of the add form.
C18_AllButBanner ==
    [][dash.mounted =>
         /\ JustSubmitted =>
               /\ ValidatePostData(dash.form.title, dash.form.body, dash.form.user_id).isValid
               /\ dash'.sent.title = Join(Trim(Chars(dash.form.title.runs)))
               /\ dash'.sent.body = Join(Trim(Chars(dash.form.body.runs)))
               /\ dash'.sent.user_id = dash.form.user_id.num
         /\ dash'.event = "created" =>
               /\ dash'.form = InitialForm
               /\ ~BannerShown(dash')
               /\ dash'.timers = dash.timers + 1
               /\ dash'.added = [count |-> 1, post |-> last'.ret.value.data]
         /\ dash'.event = "createFailed" =>
               /\ dash'.form = dash.form
               /\ dash'.added.count = 0]_vars

C18_Created == dash.mounted /\ dash.event = "created" /\ dash.sent.title = "T"

C18_Failed == dash.mounted /\ dash.event = "createFailed" /\ dash.form.title # Str(<<>>)

C18_Invalid == dash.mounted /\ dash.event = "invalid"

\* A post has just been created through the add form.
JustCreated(d) == d.event \in {"created", "createdUnmounted"}

\* C19: each successful creation increments the refresh counter of the
\* dashboard by exactly one and is followed by a reload of the list; the counter
\* never decreases, and tab clicks and failed creations leave it unchanged.
C19_RefreshCounter ==
    [][dash.mounted =>
         /\ dash'.refreshPosts >= dash.refreshPosts
         /\ JustCreated(dash') =>
               /\ dash'.refreshPosts = dash.refreshPosts + 1
               /\ dash'.activeTab = "posts"
               /\ dash'.listPc = "effect"
         /\ ~JustCreated(dash') => dash'.refreshPosts = dash.refreshPosts
         /\ dash.listPc = "effect" =>
               /\ dash'.event = "listLoad"
               /\ dash'.loadedFor = dash.refreshPosts
         /\ (dash'.activeTab = "posts" /\ dash'.listPc = "idle") =>
               dash'.loadedFor = dash'.refreshPosts]_vars

C19_Witness ==
    /\ dash.mounted
    /\ dash.event = "listLoad"
    /\ dash.refreshPosts = MaxRefresh
    /\ dash.loadedFor = MaxRefresh
    /\ dash.added.count = 0

C19_FailedWitness ==
    /\ dash.mounted
    /\ dash.event \in {"createFailed", "createFailedUnmounted"}
    /\ dash.refreshPosts = 1


\* C21: clearError sets error to null and leaves loading unchanged (and with it
\* the list, the pagination and the calls in flight), in every state,
\* including while a call is in flight.
C21_ClearErrorKeepsLoading ==
    [][(last'.kind = "clearError" /\ last.kind # "clearError") =>
         /\ error' = Null
         /\ loading' = loading
         /\ calls' = calls
         /\ posts' = posts
         /\ pagination' = pagination]_vars

\* clearError has run while a call was in flight and loading was true.
C21_Witness == last.kind = "clearError" /\ calls # <<>> /\ loading /\ error = Null


\* C22: in the add form and in the list view each call-state hook instance has
\* at most one unsettled call, across every sequence of user events and network
\* responses.
C22_AtMostOneUnsettled == dash.mounted => (Len(calls) <= 1 /\ dash.listCalls <= 1)

\* The same of the add form alone.
C22_AddFormAlone == dash.mounted => Len(calls) <= 1

\* The same of a list whose refreshTrigger does not change.
C22_ListAlone == view.mounted => Len(calls) <= 1


\* C23: if every request issued is eventually answered or fails, every execute
\* call eventually settles and loading eventually becomes false again: the list
\* never stays on its loading screen forever.
C23_LoadingEnds ==
    /\ loading ~> ~loading
    /\ (calls # <<>>) ~> (calls = <<>>)

\* A fetch of the list has failed and the loading screen has gone.
C23_Witness ==
    /\ view.mounted
    /\ view.event = "fetchFailed"
    /\ calls = <<>>
    /\ ~loading
    /\ last.kind # "init"


\* validateSearchTerm has been applied to its own result.
Reapplied == calc.fn = "validateSearchTerm" /\ calc.pc = "reapplied"

\* C24: validateSearchTerm is idempotent, validateSearchTerm(validateSearchTerm(s))
\* equals validateSearchTerm(s), so its result has no leading and no trailing
\* whitespace.
C24_Idempotent ==
    Reapplied =>
        /\ calc.again = calc.result
        /\ calc.result # <<>> =>
              (calc.result[1] # " " /\ calc.result[Len(calc.result)] # " ")

\* C24 as the code has it: the result has no leading whitespace; a result that
\* does not end in whitespace comes back as it is; a result ends in whitespace
\* only when it is the 100 characters cut from a longer trimmed input, and the
\* second application then returns fewer characters.
C24_IdempotentUnlessCutAtBlank ==
    Reapplied =>
        /\ calc.result # <<>> => calc.result[1] # " "
        /\ (calc.result = <<>> \/ calc.result[Len(calc.result)] # " ") =>
              calc.again = calc.result
        /\ (calc.result # <<>> /\ calc.result[Len(calc.result)] = " ") =>
              /\ Len(calc.result) = SearchTermLimit
              /\ Len(Trim(Chars(calc.searchTerm.runs))) > SearchTermLimit
              /\ Len(calc.again) < Len(calc.result)

\* C24 witness: a term cut to 100 characters has come back unchanged from the
\* second application.
C24_Witness == Reapplied /\ calc.again = calc.result /\ Len(calc.result) = SearchTermLimit


\* The list as PostsList has it when it is mounted and nothing else happened.
FreshList(v) ==
    /\ v.mounted
    /\ v.currentPage = 1
    /\ v.searchTerm = Str(<<>>)
    /\ v.searchInput = Str(<<>>)
    /\ v.pc = "effect"
    /\ v.event = "mount"

\* C25: list view state does not survive a tab switch. Whenever the list tab is
\* shown after the add tab (by a tab click or after a successful creation) the
\* list starts with current page 1, an empty committed search term and an empty
\* pending search text, with an empty list and no fetch in flight, and its
\* first fetch, which is the next thing to happen, is for page 1 with no search.
C25_ListStartsAfresh ==
    [][/\ (dash.activeTab = "add" /\ dash'.activeTab = "posts") =>
             /\ FreshList(view')
             /\ posts' = <<>> /\ pagination' = EmptyPagination
             /\ calls' = <<>> /\ ~loading' /\ error' = Null
       /\ (view.mounted /\ view.event = "mount") =>
             /\ view'.event = "effect"
             /\ view'.req = [page |-> 1, limit |-> DEFAULT_LIMIT, search |-> <<>>]
             /\ view'.currentPage = 1
             /\ Len(calls') = 1 /\ calls'[1].op = "fetchPosts"]_vars

\* C25 witness: the list was on page 2 with "a" typed into the search box, the
\* add tab was shown, a post was created there, and the list is shown afresh.
C25_Witness ==
    /\ FreshList(view)
    /\ dash.event = "created"
    /\ view.left.page = 2
    /\ view.left.input = Text("a")

\* The list tab is shown after the add tab by a tab click, after a search.
C25_ByTabClick ==
    /\ FreshList(view)
    /\ dash.event = "tab"
    /\ view.left.search = Text("a")

====
